---- MODULE Spec2Model ----
(***************************************************************************)
(* Model of the AI Note Taker popup (src/popup.js).                        *)
(*                                                                         *)
(* The popup is single-threaded: every handler runs to its next `await`    *)
(* without interruption, so one action of the model is one such run.  The  *)
(* points where a handler is suspended are the awaited calls to the AI     *)
(* APIs and to chrome.storage.local.  Indices (noteIndex, sectionIndex,    *)
(* currentNoteIndex) are 0-based as in the code; sequences are 1-based.    *)
(***************************************************************************)
EXTENDS Integers, Sequences, FiniteSets, TLC

VARIABLES
    notes,             \* popup.js:2   the in-memory note list
    currentNoteIndex,  \* popup.js:3
    display,           \* style.display of initialView, notesView, loadingView
    errorMsg,          \* errorMsg.innerHTML
    tabs,              \* tabs in tabsContainer: sections per note at the last render
    gens,              \* the generateNotes invocations and where each is suspended
    sq,                \* chrome.storage.local calls issued and not yet completed
    stored,            \* whether the key 'notes' exists in chrome.storage.local
    storage,           \* its value
    clock,             \* Date.now()
    ops,               \* how many of the MaxOps outside events have happened
    ioFailed,          \* history: a chrome.storage.local call has rejected
    last,              \* history: the handler that ran last and the list it found
    ren                \* history: the latest title edit and how far its save got

vars == <<notes, currentNoteIndex, display, errorMsg, tabs, gens, sq,
          stored, storage, clock, ops, ioFailed, last, ren>>

\* ------------------------------------------------------------------ bounds
\* How many events from outside a run has: the operations of the user (a click
\* on a button or a tab, a title edit, a reopening of the popup) and the
\* failures of chrome.storage.local.  Everything that could grow without end
\* (notes, calls and invocations in flight) is bounded through it.
MaxOps == 6

\* ------------------------------------------------------------------ values
Views == {"initialView", "notesView", "loadingView"}

\* What the user can have in the textarea: characters are a space or a letter.
RawTexts == {<<>>, <<" ">>, <<"a">>, <<" ", "a", " ">>}

\* What the user can type as a tab title.
NewTitles == {"T"}

ValidationMsg == "Please paste some text to generate notes."
UnavailableMsg == "Chrome Built-in AI APIs are not available."
RejectedMsg == "rejected"
TypeErrorMsg == "TypeError"

\* String.prototype.trim on a sequence of characters.
RECURSIVE TrimLeft(_)
TrimLeft(s) == IF s # <<>> /\ Head(s) = " " THEN TrimLeft(Tail(s)) ELSE s

RECURSIVE TrimRight(_)
TrimRight(s) ==
    IF s # <<>> /\ s[Len(s)] = " " THEN TrimRight(SubSeq(s, 1, Len(s) - 1)) ELSE s

Trim(s) == TrimRight(TrimLeft(s))

\* Array.prototype.splice(i, 1) for an index i >= 0: an index past the end
\* removes nothing.
Splice(a, i) ==
    IF i < Len(a)
    THEN [k \in 1..(Len(a) - 1) |-> IF k <= i THEN a[k] ELSE a[k + 1]]
    ELSE a

\* The structured clone chrome.storage.local takes of (or returns for) the
\* note list: a copy of the fields, disconnected from later mutation.
Clone(ns) ==
    [n \in 1..Len(ns) |->
        [id |-> ns[n].id,
         sections |-> [s \in 1..Len(ns[n].sections) |->
                          [title |-> ns[n].sections[s].title,
                           content |-> ns[n].sections[s].content]]]]

\* ------------------------------------------------------------------ views
\* An element whose inline style was never set is shown or hidden by the
\* stylesheet of popup.html: the input form is what a fresh popup shows.
Visible(v) ==
    IF display[v] = "css" THEN v = "initialView" ELSE display[v] # "none"

showInitialView ==
    [initialView |-> "flex", notesView |-> "none", loadingView |-> "none"]

showNotesView ==
    [initialView |-> "none", notesView |-> "flex", loadingView |-> "none"]

showLoading ==
    [initialView |-> "none", notesView |-> "none", loadingView |-> "block"]

hideLoading(d) == [d EXCEPT !.loadingView = "none", !.initialView = "flex"]

showError(message) == message

\* ------------------------------------------------------------------ render
Shape(ns) == [n \in 1..Len(ns) |-> Len(ns[n].sections)]

TabExists(ni, si) == ni < Len(tabs) /\ si < tabs[ni + 1]

\* The tabs that renderNotes gives class 'active' (lines 124, 163), for the
\* list ns and current index cur.
ActiveOf(ns, cur) ==
    {p \in {<<cur, 0>>} : 0 <= cur /\ cur < Len(ns)}

\* renderNotes: the display, error message and tabs it leaves, given the list
\* ns.  An empty list shows the initial view and returns before the
\* containers are cleared (lines 111-114).
RenderDisplay(ns, d) == IF Len(ns) = 0 THEN showInitialView ELSE d
RenderError(ns, e) == IF Len(ns) = 0 THEN <<>> ELSE e
RenderTabs(ns, t) == IF Len(ns) = 0 THEN t ELSE Shape(ns)

\* ------------------------------------------------------------------ history
\* `last` and `ren` record what happened; no handler reads them.
NoOp == [op |-> "none", ni |-> 0, si |-> 0, pre |-> <<>>, rendered |-> FALSE,
         g |-> 0, calls |-> <<>>, capS |-> "none", capL |-> "none", appended |-> 0]

\* A handler that worked on the list: which, on which indices, the list before.
Did(op, ni, si, pre, rendered) ==
    [NoOp EXCEPT !.op = op, !.ni = ni, !.si = si, !.pre = pre, !.rendered = rendered]

\* Invocation g of generateNotes returned: how, and what it had done.
Ended(op, g, rec, pre, rendered) ==
    [NoOp EXCEPT !.op = op, !.pre = pre, !.rendered = rendered, !.g = g,
                 !.calls = rec.calls, !.capS = rec.capS, !.capL = rec.capL,
                 !.appended = rec.appended]

NoRen == [st |-> "none", exp |-> <<>>]

\* A mutation of the list other than through the tracked title edit ends the
\* tracking of a list that had been reloaded.
RenAfterMutation == IF ren.st = "loaded" THEN NoRen ELSE ren

\* ------------------------------------------------------------------ storage
SetCall(ns, owner, tag) == [op |-> "set", snap |-> Clone(ns), owner |-> owner, tag |-> tag]
GetCall == [op |-> "get", snap |-> <<>>, owner |-> 0, tag |-> "none"]

Untag(q) == [k \in 1..Len(q) |-> [q[k] EXCEPT !.tag = "none"]]

\* saveNotes(): chrome.storage.local.set({notes}) is issued with the list as
\* it is now; the caller `owner` (0: nobody) awaits it.
saveNotes(q, ns, owner) == Append(q, SetCall(ns, owner, "none"))

\* ------------------------------------------------------------------ initial
Idle == [pc |-> "idle", text |-> <<>>, capS |-> "none", capL |-> "none",
         calls |-> <<>>, appended |-> 0]

Slots == 1..MaxOps

\* DOMContentLoaded has run: loadNotes() is suspended at its storage read and
\* the listeners are attached.  Nothing was ever stored.
Init ==
    /\ notes = <<>>
    /\ currentNoteIndex = 0
    /\ display = [v \in Views |-> "css"]
    /\ errorMsg = <<>>
    /\ tabs = <<>>
    /\ gens = [g \in Slots |-> Idle]
    /\ sq = <<GetCall>>
    /\ stored = FALSE
    /\ storage = <<>>
    /\ clock = 0
    /\ ops = 0
    /\ ioFailed = FALSE
    /\ last = NoOp
    /\ ren = NoRen

\* ------------------------------------------------------------------ note store
\* deleteSection's change of the list (lines 198-204), for a note index the
\* list has.
deleteSectionKeepsNote(ns, ni, si) ==
    [ns EXCEPT ![ni + 1].sections = Splice(@, si)]

deleteSectionFirst(ns, ni, si) ==
    IF Len(ns[ni + 1].sections) = 1
    THEN Splice(ns, ni)
    ELSE [ns EXCEPT ![ni + 1].sections = Splice(@, 0)]

deleteSectionHead(ns, ni, si) ==
    IF Len(ns[ni + 1].sections) = 1
    THEN Splice(ns, 0)
    ELSE [ns EXCEPT ![ni + 1].sections = Splice(@, si)]

deleteSection(ns, ni, si) ==
    IF Len(ns[ni + 1].sections) = 1
    THEN Splice(ns, ni)
    ELSE [ns EXCEPT ![ni + 1].sections = Splice(@, si)]

\* The blur handler's assignment to the section's title.
setTitleFirst(ns, ni, si, t) == [ns EXCEPT ![ni + 1].sections[1].title = t]

setTitle(ns, ni, si, t) == [ns EXCEPT ![ni + 1].sections[si + 1].title = t]

\* The note built by generateNotes from the summary, reflection and text.
noteDataTwo(id, summary, reflection, text) ==
    [id |-> id,
     sections |-> << [title |-> "Summary", content |-> summary],
                     [title |-> "Original Text", content |-> text] >>]

noteData(id, summary, reflection, text) ==
    [id |-> id,
     sections |-> << [title |-> "Summary", content |-> summary],
                     [title |-> "Reflection", content |-> reflection],
                     [title |-> "Original Text", content |-> text] >>]

\* ------------------------------------------------------------------ handlers
\* The click on a tab's delete button.  The handler was bound to the indices
\* the tab had when it was rendered; an index that the list no longer has
\* makes line 198 throw before anything is changed.
DeleteClick(ni, si) ==
    /\ Visible("notesView")
    /\ TabExists(ni, si)
    /\ ops < MaxOps
    /\ ops' = ops + 1
    /\ IF ni < Len(notes)
       THEN /\ notes' = deleteSection(notes, ni, si)
            /\ sq' = saveNotes(sq, notes', 0)
            /\ display' = RenderDisplay(notes', display)
            /\ errorMsg' = RenderError(notes', errorMsg)
            /\ tabs' = RenderTabs(notes', tabs)
            /\ last' = Did("deleteSection", ni, si, notes, Len(notes') > 0)
            /\ ren' = RenAfterMutation
       ELSE /\ last' = NoOp
            /\ UNCHANGED <<notes, sq, display, errorMsg, tabs, ren>>
    /\ UNCHANGED <<currentNoteIndex, gens, stored, storage, clock, ioFailed>>

\* The list a title edit is expected to leave: the edited section carries the
\* new title and nothing else differs.
Retitled(pre, ni, si, t) ==
    [n \in 1..Len(pre) |->
        [id |-> pre[n].id,
         sections |-> [s \in 1..Len(pre[n].sections) |->
            [title |-> IF n = ni + 1 /\ s = si + 1 THEN t
                       ELSE pre[n].sections[s].title,
             content |-> pre[n].sections[s].content]]]]

\* The blur of a tab title after the user typed t into it.
TitleBlur(ni, si, t) ==
    /\ Visible("notesView")
    /\ TabExists(ni, si)
    /\ ops < MaxOps
    /\ ops' = ops + 1
    /\ IF ni < Len(notes) /\ si < Len(notes[ni + 1].sections)
       THEN /\ notes' = setTitle(notes, ni, si, t)
            /\ sq' = Append(Untag(sq), SetCall(notes', 0, "rename"))
            /\ last' = Did("rename", ni, si, notes, FALSE)
            /\ ren' = [st |-> "pending", exp |-> Retitled(notes, ni, si, t)]
       ELSE /\ last' = NoOp
            /\ UNCHANGED <<notes, sq, ren>>
    /\ UNCHANGED <<currentNoteIndex, display, errorMsg, tabs, gens,
                   stored, storage, clock, ioFailed>>

\* The click on a tab outside its title.
SwitchTab(ni, si) ==
    /\ Visible("notesView")
    /\ TabExists(ni, si)
    /\ ops < MaxOps
    /\ ops' = ops + 1
    /\ currentNoteIndex' = ni
    /\ last' = NoOp
    /\ UNCHANGED <<notes, display, errorMsg, tabs, gens, sq, stored, storage,
                   clock, ioFailed, ren>>

\* The new-note button.
NewNoteClick ==
    /\ Visible("notesView")
    /\ ops < MaxOps
    /\ ops' = ops + 1
    /\ display' = showInitialView
    /\ errorMsg' = <<>>
    /\ last' = NoOp
    /\ UNCHANGED <<notes, currentNoteIndex, tabs, gens, sq, stored,
                   storage, clock, ioFailed, ren>>

\* The clear button.
ClearClick ==
    /\ Visible("initialView")
    /\ ops < MaxOps
    /\ ops' = ops + 1
    /\ errorMsg' = <<>>
    /\ last' = NoOp
    /\ UNCHANGED <<notes, currentNoteIndex, display, tabs, gens, sq,
                   stored, storage, clock, ioFailed, ren>>

\* ------------------------------------------------------------------ generateNotes
Free(g) == gens[g].pc = "idle"

\* The catch of generateNotes (lines 103-107), run when the step that
\* invocation g was suspended at throws an error with the given message; rec
\* is the invocation as it was when it threw.  The invocation is over.
CatchNoHide(g, rec, message) ==
    /\ gens' = [gens EXCEPT ![g] = Idle]
    /\ errorMsg' = showError(<<"Error: ", message>>)
    /\ last' = Ended("catch", g, rec, notes, FALSE)
    /\ UNCHANGED <<notes, currentNoteIndex, display, tabs, sq, stored,
                   storage, clock, ops, ioFailed, ren>>

Catch(g, rec, message) ==
    /\ gens' = [gens EXCEPT ![g] = Idle]
    /\ display' = hideLoading(display)
    /\ errorMsg' = showError(<<"Error: ", message>>)
    /\ last' = Ended("catch", g, rec, notes, FALSE)
    /\ UNCHANGED <<notes, currentNoteIndex, tabs, sq, stored, storage,
                   clock, ops, ioFailed, ren>>

\* Invocation g moves on to its next await; rec is what it is then.
Advance(g, rec) ==
    /\ gens' = [gens EXCEPT ![g] = rec]
    /\ last' = NoOp
    /\ UNCHANGED <<notes, currentNoteIndex, display, errorMsg, tabs, sq,
                   stored, storage, clock, ops, ioFailed, ren>>

\* The slot a new invocation takes: the lowest one not in flight.
NextSlot == CHOOSE g \in Slots : Free(g) /\ \A h \in 1..(g - 1) : ~Free(h)

\* The click on the generate button with `raw` in the textarea (lines 32-44).
\* hasS: window.ai?.summarizer exists, so that capabilities() is called.
GenerateClick(raw, hasS) ==
    /\ Visible("initialView")
    /\ ops < MaxOps
    /\ ops' = ops + 1
    /\ IF Trim(raw) = <<>>
       THEN /\ errorMsg' = showError(<<ValidationMsg>>)
            /\ UNCHANGED <<gens, display>>
       ELSE /\ display' = showLoading
            /\ gens' = [gens EXCEPT ![NextSlot] =
                          [pc |-> "capS", text |-> Trim(raw),
                           capS |-> IF hasS THEN "pending" ELSE "undefined",
                           capL |-> "none",
                           calls |-> IF hasS THEN <<"summarizer.capabilities">>
                                     ELSE <<>>,
                           appended |-> 0]]
            /\ UNCHANGED errorMsg
    /\ last' = NoOp
    /\ UNCHANGED <<notes, currentNoteIndex, tabs, sq, stored, storage,
                   clock, ioFailed, ren>>

\* summarizer.capabilities() settles (line 44) and languageModel's is asked
\* (line 45).  r: "no", "readily", or "reject".
CapSummarizer(g, r, hasL) ==
    /\ gens[g].pc = "capS"
    /\ IF gens[g].capS = "undefined" THEN r = "readily" ELSE TRUE
    /\ IF r = "reject"
       THEN Catch(g, gens[g], RejectedMsg)
       ELSE Advance(g, [gens[g] EXCEPT
                !.pc = "capL",
                !.capS = IF @ = "undefined" THEN @ ELSE r,
                !.capL = IF hasL THEN "pending" ELSE "undefined",
                !.calls = IF hasL THEN Append(@, "languageModel.capabilities")
                          ELSE @])

\* What lines 47-56 do once both capabilities are known: throw, or call
\* summarizer.create.  rec is the invocation with both answers.
AfterCapabilitiesNoCheck(g, rec) ==
    IF rec.capS = "undefined"
    THEN Catch(g, rec, TypeErrorMsg)
    ELSE Advance(g, [rec EXCEPT !.pc = "createS",
                                !.calls = Append(@, "summarizer.create")])

AfterCapabilities(g, rec) ==
    IF rec.capS = "no" \/ rec.capL = "no"
    THEN Catch(g, rec, UnavailableMsg)
    ELSE IF rec.capS = "undefined"
    THEN Catch(g, rec, TypeErrorMsg)
    ELSE Advance(g, [rec EXCEPT !.pc = "createS",
                                !.calls = Append(@, "summarizer.create")])

\* languageModel.capabilities() settles (line 45).
CapLanguageModel(g, r) ==
    /\ gens[g].pc = "capL"
    /\ IF gens[g].capL = "undefined" THEN r = "readily" ELSE TRUE
    /\ IF r = "reject"
       THEN Catch(g, gens[g], RejectedMsg)
       ELSE AfterCapabilities(g, [gens[g] EXCEPT
                !.capL = IF @ = "undefined" THEN @ ELSE r])

\* summarizer.create settles (line 52); summarize is called (line 59).
CreateSummarizer(g, ok) ==
    /\ gens[g].pc = "createS"
    /\ IF ok
       THEN Advance(g, [gens[g] EXCEPT !.pc = "summarize",
                                       !.calls = Append(@, "summarize")])
       ELSE Catch(g, gens[g], RejectedMsg)

\* summarize settles (line 59); languageModel.create is called (line 62).
Summarize(g, ok) ==
    /\ gens[g].pc = "summarize"
    /\ IF ~ok
       THEN Catch(g, gens[g], RejectedMsg)
       ELSE IF gens[g].capL = "undefined"
       THEN Catch(g, gens[g], TypeErrorMsg)
       ELSE Advance(g, [gens[g] EXCEPT !.pc = "createL",
                                       !.calls = Append(@, "languageModel.create")])

\* languageModel.create settles (line 62); prompt is called (line 68).
CreateSession(g, ok) ==
    /\ gens[g].pc = "createL"
    /\ IF ok
       THEN Advance(g, [gens[g] EXCEPT !.pc = "prompt",
                                       !.calls = Append(@, "prompt")])
       ELSE Catch(g, gens[g], RejectedMsg)

\* prompt settles (line 68); the note is built and pushed and saveNotes() is
\* awaited (lines 70-92).
Prompt(g, ok) ==
    /\ gens[g].pc = "prompt"
    /\ IF ok
       THEN /\ clock' = clock + 1
            /\ notes' = Append(notes, noteData(clock', "summary", "reflection",
                                               gens[g].text))
            /\ sq' = saveNotes(sq, notes', g)
            /\ gens' = [gens EXCEPT ![g].pc = "save", ![g].appended = @ + 1]
            /\ last' = Did("push", 0, 0, notes, FALSE)
            /\ ren' = RenAfterMutation
            /\ UNCHANGED <<currentNoteIndex, display, errorMsg, tabs, stored,
                           storage, ops, ioFailed>>
       ELSE /\ Catch(g, gens[g], RejectedMsg)

\* ------------------------------------------------------------------ storage calls
\* Lines 93-100 of generateNotes, run when its saveNotes() returns.
GenerateFinish(g) ==
    /\ currentNoteIndex' = Len(notes) - 1
    /\ gens' = [gens EXCEPT ![g] = Idle]
    /\ tabs' = RenderTabs(notes, tabs)
    /\ display' = showNotesView
    /\ errorMsg' = RenderError(notes, errorMsg)
    /\ last' = Ended("generated", g, gens[g], notes, Len(notes) > 0)
    /\ UNCHANGED notes

\* chrome.storage.local completes its oldest set call: the value is written,
\* or the call rejects and saveNotes logs it (lines 240-246).  Then the
\* generateNotes invocation awaiting it, if any, runs on.
StorageSet(ok) ==
    /\ sq # <<>>
    /\ Head(sq).op = "set"
    /\ sq' = Tail(sq)
    /\ IF ok
       THEN /\ stored' = TRUE
            /\ storage' = Head(sq).snap
            /\ ren' = IF Head(sq).tag = "rename" THEN [ren EXCEPT !.st = "stored"]
                      ELSE IF ren.st = "stored" THEN NoRen
                      ELSE ren
            /\ UNCHANGED <<ioFailed, ops>>
       ELSE /\ ops < MaxOps
            /\ ops' = ops + 1
            /\ ioFailed' = TRUE
            /\ ren' = IF Head(sq).tag = "rename" THEN NoRen ELSE ren
            /\ UNCHANGED <<stored, storage>>
    /\ IF Head(sq).owner # 0
       THEN GenerateFinish(Head(sq).owner)
       ELSE /\ last' = NoOp
            /\ UNCHANGED <<notes, currentNoteIndex, gens, tabs, display,
                           errorMsg>>
    /\ UNCHANGED clock

\* loadNotes after its storage read returned `result` (lines 251-257);
\* has: result.notes is there.
LoadedIgnored(has, result) ==
    /\ last' = NoOp
    /\ UNCHANGED <<notes, tabs, display, errorMsg>>

Loaded(has, result) ==
    IF has
    THEN /\ notes' = result
         /\ tabs' = RenderTabs(notes', tabs)
         /\ display' = IF Len(notes') > 0 THEN showNotesView
                       ELSE RenderDisplay(notes', display)
         /\ errorMsg' = RenderError(notes', errorMsg)
         /\ last' = Did("loadNotes", 0, 0, notes, Len(notes') > 0)
    ELSE /\ last' = NoOp
         /\ UNCHANGED <<notes, tabs, display, errorMsg>>

\* chrome.storage.local completes the get call of loadNotes (line 250), or
\* rejects it (line 259).
StorageGet(ok) ==
    /\ sq # <<>>
    /\ Head(sq).op = "get"
    /\ sq' = Tail(sq)
    /\ IF ok
       THEN /\ Loaded(stored, Clone(storage))
            /\ ren' = IF ren.st = "stored" THEN [ren EXCEPT !.st = "loaded"] ELSE ren
            /\ UNCHANGED <<ioFailed, ops>>
       ELSE /\ ops < MaxOps
            /\ ops' = ops + 1
            /\ ioFailed' = TRUE
            /\ last' = NoOp
            /\ UNCHANGED <<notes, tabs, display, errorMsg, ren>>
    /\ UNCHANGED <<currentNoteIndex, gens, stored, storage, clock>>

\* ------------------------------------------------------------------ popup lifetime
SetsOf(q) == SelectSeq(q, LAMBDA c : c.op = "set")

Detached(q) == [k \in 1..Len(q) |-> [q[k] EXCEPT !.owner = 0]]

\* The popup is closed and opened again: the document and its script state
\* are new, DOMContentLoaded runs (lines 18-21).  The set calls already issued
\* are still carried out; nobody awaits them any more.
Reopen ==
    /\ ops < MaxOps
    /\ ops' = ops + 1
    /\ notes' = <<>>
    /\ currentNoteIndex' = 0
    /\ display' = [v \in Views |-> "css"]
    /\ errorMsg' = <<>>
    /\ tabs' = <<>>
    /\ gens' = [g \in Slots |-> Idle]
    /\ sq' = Append(Detached(SetsOf(sq)), GetCall)
    /\ last' = NoOp
    /\ ren' = IF ren.st = "loaded" THEN NoRen ELSE ren
    /\ UNCHANGED <<stored, storage, clock, ioFailed>>

\* ------------------------------------------------------------------ specification
Indices == 0..(MaxOps - 1)
SectionIndices == 0..2
Outcomes == {"no", "readily", "reject"}

Next ==
    \/ \E raw \in RawTexts, hasS \in BOOLEAN : GenerateClick(raw, hasS)
    \/ \E g \in Slots, r \in Outcomes, hasL \in BOOLEAN : CapSummarizer(g, r, hasL)
    \/ \E g \in Slots, r \in Outcomes : CapLanguageModel(g, r)
    \/ \E g \in Slots, ok \in BOOLEAN : CreateSummarizer(g, ok)
    \/ \E g \in Slots, ok \in BOOLEAN : Summarize(g, ok)
    \/ \E g \in Slots, ok \in BOOLEAN : CreateSession(g, ok)
    \/ \E g \in Slots, ok \in BOOLEAN : Prompt(g, ok)
    \/ \E ok \in BOOLEAN : StorageSet(ok)
    \/ \E ok \in BOOLEAN : StorageGet(ok)
    \/ \E ni \in Indices, si \in SectionIndices : DeleteClick(ni, si)
    \/ \E ni \in Indices, si \in SectionIndices, t \in NewTitles : TitleBlur(ni, si, t)
    \/ \E ni \in Indices, si \in SectionIndices : SwitchTab(ni, si)
    \/ NewNoteClick
    \/ ClearClick
    \/ Reopen

Spec == Init /\ [][Next]_vars

\* ------------------------------------------------------------------ properties
Titles(note) == [s \in 1..Len(note.sections) |-> note.sections[s].title]

InFlightSlots == {g \in Slots : ~Free(g)}

Creates == {"summarizer.create", "languageModel.create"}

Queries == {"summarizer.capabilities", "languageModel.capabilities"}

Called(calls) == {calls[k] : k \in 1..Len(calls)}

\* Position of a call in the sequence of calls made (0: not made).
Position(calls, c) ==
    IF c \in Called(calls) THEN CHOOSE k \in 1..Len(calls) : calls[k] = c ELSE 0

\* deleteSection has just run on a note the list had.
Deleted == last.op = "deleteSection"
DeletedNote == last.pre[last.ni + 1]

\* C1: every note of the in-memory list has at least one section.
C1_EveryNoteHasASection ==
    \A n \in 1..Len(notes) : Len(notes[n].sections) >= 1

\* reached: a section was deleted from a note and the note is still there
C1_Witness ==
    /\ Deleted
    /\ Len(notes) = Len(last.pre)
    /\ Len(notes[last.ni + 1].sections) = 1

\* C2: deleteSection on a note with exactly one section removes that note:
\* the list is one shorter and the other notes are as before, in their order.
C2_SoleSectionRemovesNote ==
    (Deleted /\ Len(DeletedNote.sections) = 1) =>
        /\ Len(notes) = Len(last.pre) - 1
        /\ \A k \in 1..Len(notes) :
              notes[k] = IF k <= last.ni THEN last.pre[k] ELSE last.pre[k + 1]

\* reached: the second of two notes lost its only section
C2_Witness ==
    /\ Deleted
    /\ Len(DeletedNote.sections) = 1
    /\ Len(last.pre) = 2
    /\ last.ni = 1
    /\ Len(notes) = 1

\* C3: deleteSection on a note with two or more sections removes exactly the
\* section at sectionIndex: the note stays where it is, its other sections
\* keep title, content and order, and every other note is unchanged.
C3_DeleteOneOfSeveral ==
    (Deleted /\ Len(DeletedNote.sections) >= 2
             /\ last.si < Len(DeletedNote.sections)) =>
        /\ Len(notes) = Len(last.pre)
        /\ \A k \in 1..Len(notes) : k # last.ni + 1 => notes[k] = last.pre[k]
        /\ notes[last.ni + 1].id = DeletedNote.id
        /\ Len(notes[last.ni + 1].sections) = Len(DeletedNote.sections) - 1
        /\ \A j \in 1..Len(notes[last.ni + 1].sections) :
              notes[last.ni + 1].sections[j] =
                  IF j <= last.si THEN DeletedNote.sections[j]
                  ELSE DeletedNote.sections[j + 1]

\* reached: the middle section of a three-section note was deleted
C3_Witness ==
    /\ Deleted
    /\ Len(DeletedNote.sections) = 3
    /\ last.si = 1
    /\ Titles(notes[last.ni + 1]) = <<"Summary", "Original Text">>

\* C4: the note generateNotes appends has exactly the sections Summary,
\* Reflection, Original Text in this order, it is appended behind the notes
\* that were there, and an invocation appends at most one note.
C4_GeneratedNoteHasThreeSections ==
    /\ last.op = "push" =>
          /\ Len(notes) = Len(last.pre) + 1
          /\ SubSeq(notes, 1, Len(last.pre)) = last.pre
          /\ Titles(notes[Len(notes)]) = <<"Summary", "Reflection", "Original Text">>
          /\ notes[Len(notes)].sections[3].content # <<>>
    /\ \A g \in Slots : gens[g].appended = IF gens[g].pc = "save" THEN 1 ELSE 0
    /\ last.appended <= 1

\* reached: a second note was appended behind a first
C4_Witness ==
    /\ last.op = "push"
    /\ Len(notes) = 2

\* C5: when a capability check reports "no", the invocation calls neither
\* summarizer.create nor languageModel.create and ends in the catch without
\* having appended a note; a create is called only after both capability
\* queries were made and answered.
C5_UnavailableCreatesNothing ==
    /\ \A g \in InFlightSlots :
          /\ gens[g].capS = "no" => gens[g].pc = "capL"
          /\ gens[g].capL # "no"
          /\ Called(gens[g].calls) \cap Creates # {} =>
                /\ gens[g].capS = "readily"
                /\ gens[g].capL \in {"readily", "undefined"}
                /\ \A c \in Called(gens[g].calls) \cap Creates :
                   \A q \in Called(gens[g].calls) \cap Queries :
                      Position(gens[g].calls, q) < Position(gens[g].calls, c)
    /\ (last.op \in {"catch", "generated"} /\ "no" \in {last.capS, last.capL}) =>
          /\ last.op = "catch"
          /\ Called(last.calls) \cap Creates = {}
          /\ last.appended = 0
          /\ Head(errorMsg) = "Error: "

\* reached: the language model reported "no" and the invocation ended
C5_Witness ==
    /\ last.op = "catch"
    /\ last.capS = "readily"
    /\ last.capL = "no"
    /\ last.calls = <<"summarizer.capabilities", "languageModel.capabilities">>

\* C6: a title edit whose save completes is what storage holds, and a popup
\* that then loads from storage has the list as the edit left it: the edited
\* section with the new title, everything else as before the edit.
C6_RenameSurvivesReload ==
    /\ ren.st = "stored" => (stored /\ storage = ren.exp)
    /\ ren.st = "loaded" => notes = ren.exp

\* reached: a reopened popup loaded a list in which a section is titled T
C6_Witness ==
    /\ ren.st = "loaded"
    /\ last.op = "loadNotes"
    /\ \E n \in 1..Len(notes) : \E k \in 1..Len(notes[n].sections) :
          notes[n].sections[k].title \in NewTitles

\* C7: once a show/hide function has run, at most one of the three views is
\* displayed.
C7_ViewsMutuallyExclusive ==
    (\A v \in Views : display[v] # "css") =>
        Cardinality({v \in Views : display[v] # "none"}) <= 1

\* C8: when no storage call is in flight and none has failed, storage holds
\* the in-memory list.
Persisted == IF stored THEN storage ELSE <<>>

C8_StoreSyncedWhenQuiet ==
    (sq = <<>> /\ ~ioFailed) => Persisted = notes

\* C9: a generateNotes invocation in which a step failed has ended in the
\* catch: the loading view is hidden, the error message is displayed, and the
\* invocation is over (nothing of it is left to call the AI again).
C9_FailureEndsInCatch ==
    last.op = "catch" =>
        /\ display.loadingView = "none"
        /\ \E m \in {UnavailableMsg, RejectedMsg, TypeErrorMsg} :
              errorMsg = <<"Error: ", m>>
        /\ Free(last.g)
        /\ last.appended = 0

\* reached: summarize rejected
C9_Witness ==
    /\ last.op = "catch"
    /\ last.calls = <<"summarizer.capabilities", "languageModel.capabilities",
                      "summarizer.create", "summarize">>
    /\ errorMsg = <<"Error: ", RejectedMsg>>

\* C10: after a render of a non-empty list, currentNoteIndex is an index of
\* the list and exactly one tab is active.
C10_CurrentIndexValid ==
    (last.rendered /\ Len(notes) > 0) =>
        /\ 0 <= currentNoteIndex
        /\ currentNoteIndex < Len(notes)
        /\ Cardinality(ActiveOf(notes, currentNoteIndex)) = 1

====
